---- MODULE Spec2Model ----
(***************************************************************************)
(* Model of the driftwood script host: the Lua runner queue, the           *)
(* application-command binding (register_app.go) and the LuaManager        *)
(* (LoadScripts, on_ready registrar, ReadyHandler).                        *)
(***************************************************************************)
EXTENDS Integers, Sequences, FiniteSets, TLC

\* ---------------------------------------------------------------- bounds
MaxRegs == 2      \* register_application_command calls made by scripts
MaxCbs == 3       \* on_ready calls made by scripts
MaxReady == 2     \* ready events delivered by the session (startup + reconnection)
MaxEvents == 1    \* concurrent interaction goroutines
MaxClock == 1     \* distinct readings of time.Now().Unix() after the first
MaxComponents == 3 \* entries of a table passed to ParseComponents
NumScripts == 1   \* script files found by filepath.Walk

\* ------------------------------------------------------ program constants
ApplicationCommandOptionSubCommand == 1
ApplicationCommandOptionSubCommandGroup == 2
ApplicationCommandOptionString == 3
ApplicationCommandOptionInteger == 4
ApplicationCommandOptionBoolean == 5
ApplicationCommandOptionNumber == 10
PrimaryButton == 1

\* ------------------------------------------------------------ Lua values
\* An option descriptor table as a script writes it.  The *Kind fields are
\* the Lua value kinds the code tests with Type().
Opt(n, ty, hk, subs) ==
    [name |-> n, nameKind |-> "string", descKind |-> "string",
     typeKind |-> "number", type |-> ty, handlerKind |-> hk, options |-> subs]

Cmd(n, hk, ok, opts) ==
    [name |-> n, nameKind |-> "string", descKind |-> "string",
     handlerKind |-> hk, optionsKind |-> ok, options |-> opts]

Sub(n, hk, subs) == Opt(n, ApplicationCommandOptionSubCommand, hk, subs)

\* The descriptors the scripts pass to register_application_command.
\* "foo" with a handler of its own.
FooCmd == Cmd("foo", "function", "nil", <<>>)
\* "foo" with the subcommand "bar".
FooWithBar == Cmd("foo", "nil", "table", <<Sub("bar", "function", <<>>)>>)
\* "foo" with a handler of its own, the subcommand "bar" and "baz" below it.
FooWithBarBaz ==
    Cmd("foo", "function", "table",
        <<Sub("bar", "function", <<Sub("baz", "function", <<>>)>>)>>)
\* A command whose name is "foo_bar".
FooBarCmd == Cmd("foo_bar", "function", "nil", <<>>)
\* "foo" whose second subcommand has no handler.
FooWithBarAndBadQux ==
    Cmd("foo", "function", "table",
        <<Sub("bar", "function", <<>>), Sub("qux", "nil", <<>>)>>)
\* A descriptor whose name is not a string.
BadNameCmd == [Cmd("bad", "function", "nil", <<>>) EXCEPT !.nameKind = "number"]

\* Descriptors with one field of a kind the entry point refuses.
BadDescriptionCmd == [Cmd("bad", "function", "nil", <<>>) EXCEPT !.descKind = "nil"]
BadHandlerCmd == Cmd("bad", "string", "nil", <<>>)
BadOptionsCmd == Cmd("bad", "function", "string", <<>>)
BadOptionNameCmd ==
    Cmd("bad", "function", "table",
        <<[Opt("x", ApplicationCommandOptionString, "nil", <<>>)
              EXCEPT !.nameKind = "nil"]>>)
BadOptionDescriptionCmd ==
    Cmd("bad", "function", "table",
        <<[Opt("x", ApplicationCommandOptionString, "nil", <<>>)
              EXCEPT !.descKind = "number"]>>)
BadOptionTypeCmd ==
    Cmd("bad", "function", "table",
        <<[Opt("x", ApplicationCommandOptionString, "nil", <<>>)
              EXCEPT !.typeKind = "string"]>>)

InvalidDescriptors ==
    {BadNameCmd, BadDescriptionCmd, BadHandlerCmd, BadOptionsCmd, BadOptionNameCmd,
     BadOptionDescriptionCmd, BadOptionTypeCmd, FooWithBarAndBadQux}

Descriptors ==
    {FooCmd, FooWithBar, FooWithBarBaz, FooBarCmd, FooWithBarAndBadQux, BadNameCmd}

\* An option of an inbound application-command event.  value is the option's
\* Value as the platform sent it; subcommand and group options carry none.
\* An empty options list is the nil slice of an option sent without options.
NilValue == "<nil>"
EvOptValue(n, ty, v) == [name |-> n, type |-> ty, value |-> v, options |-> <<>>]
EvOpt(n, ty, subs) == [name |-> n, type |-> ty, value |-> NilValue, options |-> subs]

\* The inbound application-command events.
Events ==
    { [name |-> "foo", options |-> <<>>],
      [name |-> "foo",
       options |-> <<EvOpt("bar", ApplicationCommandOptionSubCommand, <<>>)>>],
      [name |-> "foo",
       options |-> <<EvOptValue("x", ApplicationCommandOptionString, "0"),
                     EvOpt("bar", ApplicationCommandOptionSubCommand, <<>>)>>],
      [name |-> "nope", options |-> <<>>] }

VARIABLES
    Session,        \* b.Session: "nil" or "session"
    Commands,       \* b.Commands: dispatch key -> Lua global name
    waitRegister,   \* b.waitRegister: the queued registration closures
    globals,        \* the interpreter's global table: name -> callable
    OnReadyCbs,     \* m.OnReadyCbs: ordered list of global names
    clock,          \* the last reading of time.Now().Unix()
    queue,          \* the runner's admission queue
    running,        \* the tasks executing against the interpreter
    finished,       \* ids of the tasks whose completion was signalled
    nextTid,        \* id given to the next accepted task
    started,        \* ids of the tasks in the order the worker started them
    loaderPc, loaderTid, loaded,              \* the NewManager/LoadScripts caller
    evPc, evEvent, evGlobal, evTid,           \* the HandleCommand goroutines
    evSeen,         \* registration calls returned before each event's lookup
    readyPc, readyCount, replayLen, replayIdx,
    cbLen, cbIdx, readyTid,                   \* the ReadyHandler goroutine
    platformCalls,  \* ApplicationCommandCreate calls received by the platform
    invoked,        \* script functions called through CallByParam, in order
    regLog,         \* register_application_command calls made, in order;
                    \* done tells that the call has returned or raised
    logged,         \* slog records written
    offWorker,      \* interpreter operations made outside a runner task
    regCall,        \* the register_application_command call in progress
    fatal,          \* the Go runtime has aborted the process
    compTable,      \* the table a binding passes to ParseComponents
    compResult      \* what ParseComponents returned for it

binding == <<Session, Commands, waitRegister>>
interp == <<globals, OnReadyCbs>>
runner == <<queue, running, finished, nextTid, started>>
loader == <<loaderPc, loaderTid, loaded>>
evs == <<evPc, evEvent, evGlobal, evTid, evSeen>>
ready == <<readyPc, readyCount, replayLen, replayIdx, cbLen, cbIdx, readyTid>>
hist == <<platformCalls, invoked, regLog, logged, offWorker>>
comp == <<compTable, compResult>>
entry == <<regCall, fatal>>
vars == <<binding, interp, clock, runner, loader, evs, ready, hist, comp, entry>>

\* The process runs until the runtime aborts it.
Alive == ~fatal

EvIds == 1..MaxEvents

\* ------------------------------------------------------- interpreter state
\* L.SetGlobal / map assignment: the new value replaces any earlier one.
SetKey(f, k, v) == (k :> v) @@ f

\* A Lua function value.  Every function a script passes is a distinct
\* object: it is identified by the call that supplied it and its place in it.
Callable(reg, role, cmd, opt) == [reg |-> reg, role |-> role, cmd |-> cmd, opt |-> opt]

\* fmt.Sprintf("handler_%s", name)
CommandGlobalName(name) == "handler_" \o name

\* parentName + "_" + option.Name
SubKey(parentName, optName) == parentName \o "_" \o optName

\* fmt.Sprintf("handler_%s_%s", parentName, option.Name)
SubGlobalName(parentName, optName) == "handler_" \o parentName \o "_" \o optName

\* fmt.Sprintf("on_ready_handler_%d", time.Now().Unix())
ReadyGlobalName(now) == "on_ready_handler_" \o ToString(now)

\* Variant of MissingHandler: a subcommand option without a handler passes.
MissingHandlerAccepted(o) == FALSE

\* handler.Type() != lua.LTFunction for a subcommand option.
MissingHandler(o) == o.handlerKind # "function"

\* One handler installed by the entry point: L.SetGlobal(globalName, handler)
\* followed by b.Commands[key] = globalName.
HandlerWrite(key, globalName, fn) == [key |-> key, globalName |-> globalName, fn |-> fn]

\* parseOptions: walks the option tables in order.  st.writes is the list of
\* the handlers installed so far, in the order the walk installs them;
\* st.err is set when L.ArgError unwinds the call, which is after the writes
\* already listed and before any other.
RECURSIVE parseOptions(_, _, _)
parseOptions(st, parentName, options) ==
    IF st.err \/ options = <<>> THEN st
    ELSE LET o == Head(options)
             bad == \/ o.nameKind # "string"
                    \/ o.descKind # "string"
                    \/ o.typeKind # "number"
             handlerName == SubGlobalName(parentName, o.name)
             key == SubKey(parentName, o.name)
             fn == Callable(st.reg, "subcommand", parentName, o.name)
             st1 ==
                 IF bad THEN [st EXCEPT !.err = TRUE]
                 ELSE IF o.type # ApplicationCommandOptionSubCommand THEN st
                 ELSE IF MissingHandler(o) THEN [st EXCEPT !.err = TRUE]
                 ELSE parseOptions(
                          [st EXCEPT !.writes =
                                         Append(@, HandlerWrite(key, handlerName, fn))],
                          key, o.options)
         IN parseOptions(st1, parentName, Tail(options))

\* The part of the register_application_command entry point that runs before
\* the session test: validation of the descriptor's fields, the command's own
\* handler, the options.  The result lists the writes in program order and
\* tells whether an argument error ends the call after them.
RegisterParse(d, reg) ==
    LET st0 == [writes |-> <<>>, err |-> FALSE, reg |-> reg]
        bad == \/ d.nameKind # "string"
               \/ d.descKind # "string"
               \/ d.handlerKind \notin {"nil", "function"}
               \/ d.optionsKind \notin {"nil", "table"}
        globalName == CommandGlobalName(d.name)
        st1 == IF d.handlerKind # "nil"
               THEN [st0 EXCEPT
                        !.writes = Append(@, HandlerWrite(d.name, globalName,
                                              Callable(reg, "command", d.name, "")))]
               ELSE st0
    IN IF bad THEN [st0 EXCEPT !.err = TRUE]
       ELSE IF d.optionsKind # "nil" THEN parseOptions(st1, d.name, d.options)
       ELSE st1

\* The lookup key HandleInteraction computes for an event.
DispatchKey(e) ==
    LET subs == {i \in 1..Len(e.options) :
                    e.options[i].type = ApplicationCommandOptionSubCommand}
        first == CHOOSE i \in subs : \A j \in subs : i <= j
    IN IF subs = {} THEN e.name ELSE e.name \o "_" \o e.options[first].name

\* The Lua value buildOptionsTable stores for a non-subcommand option.
LuaValue(opt) ==
    CASE opt.type = ApplicationCommandOptionInteger ->
             [kind |-> "number", v |-> opt.value]
      [] opt.type = ApplicationCommandOptionBoolean ->
             [kind |-> "boolean", v |-> opt.value]
      [] opt.type = ApplicationCommandOptionString ->
             [kind |-> "string", v |-> opt.value]
      [] opt.type = ApplicationCommandOptionNumber ->
             [kind |-> "number", v |-> opt.value]
      [] OTHER -> [kind |-> "string", v |-> opt.value]

\* buildOptionsTable: fills T from the options in order; at a subcommand
\* option that has options it returns what the nested list gives, with the
\* same T; a subcommand option without options is passed over.
RECURSIVE buildOptionsTable(_, _)
buildOptionsTable(T, options) ==
    IF options = <<>> THEN T
    ELSE LET opt == Head(options)
         IN IF opt.type = ApplicationCommandOptionSubCommand
            THEN IF opt.options # <<>>
                 THEN buildOptionsTable(T, opt.options)
                 ELSE buildOptionsTable(T, Tail(options))
            ELSE buildOptionsTable(SetKey(T, opt.name, LuaValue(opt)), Tail(options))

\* prepareInteractionTable: the table passed to a command handler.
prepareInteractionTable(e) ==
    [options |-> buildOptionsTable([k \in {} |-> k], e.options)]

\* ---------------------------------------------------------- ParseComponents
\* Lua values as ParseComponents meets them.
LNil == [kind |-> "nil"]
LString(v) == [kind |-> "string", v |-> v]
LBool(b) == [kind |-> "bool", b |-> b]
LTable(items) == [kind |-> "table", items |-> items]

\* LValue.String()
LuaToString(val) ==
    CASE val.kind = "string" -> val.v
      [] val.kind = "nil" -> "nil"
      [] val.kind = "bool" -> IF val.b THEN "true" ELSE "false"
      [] OTHER -> "table"

\* A component table as a script writes it; a field left out is LNil.
ComponentTable(type, label, customID, placeholder, disabled, options) ==
    [kind |-> "table", type |-> type, label |-> label, custom_id |-> customID,
     placeholder |-> placeholder, disabled |-> disabled, options |-> options]

\* An entry of a select menu's options table.
SelectOption(label, value) == [kind |-> "table", label |-> label, value |-> value]

\* disabled is true only for a boolean true.
ParseDisabled(disabledRaw) == disabledRaw.kind = "bool" /\ disabledRaw.b

\* The inner ForEach: the table entries of a select menu's options.
RECURSIVE ParseSelectOptions(_)
ParseSelectOptions(items) ==
    IF items = <<>> THEN <<>>
    ELSE LET value == Head(items)
             rest == ParseSelectOptions(Tail(items))
         IN IF value.kind # "table" THEN rest
            ELSE <<[Label |-> LuaToString(value.label),
                    Value |-> LuaToString(value.value)]>> \o rest

\* One step of the outer ForEach: what an entry appends to components.
ParseComponent(value) ==
    IF value.kind # "table" THEN <<>>
    ELSE LET componentType == LuaToString(value.type)
         IN IF componentType = "button"
            THEN <<[component |-> "Button",
                    Label |-> LuaToString(value.label),
                    CustomID |-> LuaToString(value.custom_id),
                    Style |-> PrimaryButton,
                    Disabled |-> ParseDisabled(value.disabled)]>>
            ELSE IF componentType = "select"
            THEN IF value.options.kind # "table" THEN <<>>
                 ELSE <<[component |-> "SelectMenu",
                         Placeholder |-> LuaToString(value.placeholder),
                         CustomID |-> LuaToString(value.custom_id),
                         Options |-> ParseSelectOptions(value.options.items),
                         Disabled |-> ParseDisabled(value.disabled)]>>
            ELSE <<>>

RECURSIVE ParseEntries(_)
ParseEntries(table) ==
    IF table = <<>> THEN <<>>
    ELSE ParseComponent(Head(table)) \o ParseEntries(Tail(table))

\* What ParseComponents returns: the component list (empty for nil) and the
\* error ("nil" for none).
Returns(components, err) == [called |-> TRUE, components |-> components, err |-> err]
NotCalled == [called |-> FALSE, components |-> <<>>, err |-> "nil"]

\* Variant of WrapInActionRow: an empty list is wrapped too.
WrapAlways(components) ==
    Returns(<<[component |-> "ActionsRow", Components |-> components]>>, "nil")

\* The end of ParseComponents: one action row, or the failure.
WrapInActionRow(components) ==
    IF Len(components) > 0
    THEN Returns(<<[component |-> "ActionsRow", Components |-> components]>>, "nil")
    ELSE Returns(<<>>, "no valid components found")

ParseComponents(table) == WrapInActionRow(ParseEntries(table))

\* The entries scripts put in a components table.
GoButton == ComponentTable(LString("button"), LString("Go"), LString("go_btn"),
                           LNil, LNil, LNil)
OffButton == ComponentTable(LString("button"), LString("Off"), LNil,
                            LNil, LBool(TRUE), LNil)
PickSelect ==
    ComponentTable(LString("select"), LNil, LString("pick"), LString("Pick one"),
                   LString("yes"),
                   LTable(<<SelectOption(LString("A"), LString("a")), LString("b")>>))
SelectWithoutOptions ==
    ComponentTable(LString("select"), LNil, LString("pick"), LNil, LNil, LNil)
TextEntry == ComponentTable(LString("text"), LString("T"), LString("t"), LNil, LNil, LNil)

ComponentEntries ==
    {GoButton, OffButton, PickSelect, SelectWithoutOptions, TextEntry, LString("x")}

RECURSIVE TablesUpTo(_)
TablesUpTo(n) ==
    IF n = 0 THEN {<<>>}
    ELSE LET shorter == TablesUpTo(n - 1)
         IN shorter \cup {Append(t, e) : t \in shorter, e \in ComponentEntries}

ComponentTables == TablesUpTo(MaxComponents)

\* ------------------------------------------------------------------ runner
\* A task as submitted: the closure's kind, the global name it captured and
\* the call that submitted it (the goroutine of a command event, the number
\* of the ready event; 0 for LoadScripts).
Task(kind, fn, src) ==
    [id |-> nextTid, kind |-> kind, fn |-> fn, src |-> src, phase |-> "queued"]

\* Do: the task is admitted to the queue; the caller then waits for its
\* completion signal (Returned).
Do(t) ==
    /\ queue' = Append(queue, t)
    /\ nextTid' = nextTid + 1
    /\ UNCHANGED <<running, finished, started>>

\* The completion signal of task id has been sent.
Returned(id) == id \in finished

\* The worker takes a task only when it is executing none.
WorkerIdle == running = {}

\* Variant of NextTask: the most recently admitted task is taken first.
NextTaskNewest == queue[Len(queue)]

\* The worker takes the task at the head of the queue.
NextTask == Head(queue)

\* The task leaves the queue and starts executing against the interpreter.
Started(t, phase) ==
    /\ running' = running \cup {[t EXCEPT !.phase = phase]}
    /\ queue' = SelectSeq(queue, LAMBDA u : u.id # t.id)
    /\ started' = Append(started, t.id)
    /\ UNCHANGED <<finished, nextTid>>

\* The task's function has returned: the worker signals its caller.
Completed(t) ==
    /\ running' = running \ {t}
    /\ finished' = finished \cup {t.id}
    /\ UNCHANGED <<queue, nextTid, started>>

\* ------------------------------------------------------------- task bodies
\* RegisterDiscordModule's task: L.PreloadModule("driftwood", discordLoader).
ModuleTask(t) ==
    /\ t.kind = "module"
    /\ Started(t, "host")
    /\ UNCHANGED hist

\* LoadScripts' first task: extends package.path.
PathTask(t) ==
    /\ t.kind = "path"
    /\ Started(t, "host")
    /\ UNCHANGED hist

\* L.DoFile(path): the script's chunk starts executing.
DoFileTask(t) ==
    /\ t.kind = "load"
    /\ Started(t, "script")
    /\ UNCHANGED hist

\* The key HandleInteraction computed for the event whose task is t; the
\* task's closure captures it as commandName.
TaskCommandName(t) == DispatchKey(evEvent[t.src])

\* The closure submitted by HandleInteraction and by ReadyHandler: resolve
\* the global and call it in protected mode.  A nil global is logged with
\* the attribute the call site gives (the command key, the callback's name).
CallGlobalTask(t, notFound, attr, args) ==
    /\ IF t.fn \in DOMAIN globals
       THEN /\ invoked' = Append(invoked, [tid |-> t.id, kind |-> t.kind,
                                           src |-> t.src, name |-> t.fn,
                                           fn |-> globals[t.fn], args |-> args])
            /\ Started(t, "script")
            /\ UNCHANGED logged
       ELSE /\ logged' = logged \cup {[msg |-> notFound, arg |-> attr]}
            /\ Started(t, "host")
            /\ UNCHANGED invoked
    /\ UNCHANGED <<platformCalls, regLog, offWorker>>

HandlerTask(t) ==
    /\ t.kind = "handler"
    /\ CallGlobalTask(t, "Lua handler not implemented", TaskCommandName(t),
                      <<prepareInteractionTable(evEvent[t.src])>>)

ReadyTask(t) ==
    /\ t.kind = "ready"
    /\ CallGlobalTask(t, "Lua on_ready handler not found", t.fn, <<>>)

\* The worker's loop: take the next task when idle and run it.
WorkerTake ==
    /\ Alive
    /\ WorkerIdle
    /\ queue # <<>>
    /\ LET t == NextTask
       IN \/ ModuleTask(t)
          \/ PathTask(t)
          \/ DoFileTask(t)
          \/ HandlerTask(t)
          \/ ReadyTask(t)
    /\ UNCHANGED <<binding, interp, clock, loader, evs, ready>>
    /\ UNCHANGED <<comp, entry>>

\* The message each protected call site logs when the script raised.
ErrorMessage(kind) ==
    CASE kind = "load" -> "Failed to load Lua script"
      [] kind = "handler" -> "Error executing Lua command handler"
      [] kind = "ready" -> "Error executing Lua on_ready handler"
      [] OTHER -> ""

\* What the error record names besides the error: the command key for a
\* handler, nothing for a ready callback (script paths are not modelled).
ErrorAttribute(t) ==
    IF t.kind = "handler" THEN TaskCommandName(t) ELSE ""

\* Variant of ScriptRaised: the error is not caught at the task boundary and
\* the worker never gets past the task.
ScriptRaisedUncaught(t) ==
    /\ running' = (running \ {t}) \cup {[t EXCEPT !.phase = "crashed"]}
    /\ UNCHANGED <<queue, finished, nextTid, started, logged>>

\* The protected call around a script catches an error raised inside it: the
\* script stops there, the call site logs the error and the task returns.
ScriptRaised(t) ==
    /\ Completed(t)
    /\ logged' = logged \cup {[msg |-> ErrorMessage(t.kind), arg |-> ErrorAttribute(t)]}

\* The task's function ends: normally, or because its script raised an error.
TaskEnds(t, raised) ==
    /\ Alive
    /\ t.phase \in {"host", "script"}
    /\ t.kind = "load" => regCall.pc = "idle"
    /\ raised => t.phase = "script"
    /\ IF raised
       THEN ScriptRaised(t)
       ELSE Completed(t) /\ UNCHANGED logged
    /\ UNCHANGED <<binding, interp, clock, loader, evs, ready>>
    /\ UNCHANGED <<platformCalls, invoked, regLog, offWorker>>
    /\ UNCHANGED <<comp, entry>>

\* ------------------------------------------ register_application_command
\* Variant of Unbound: the entry point never queues.
UnboundNever == FALSE

\* The session test of the entry point: no session yet.
Unbound == Session = "nil"

\* session.ApplicationCommandCreate as the platform sees it.
PlatformCall(reg, name, via, ok) ==
    [reg |-> reg, name |-> name, via |-> via, ok |-> ok]

\* The replayed calls of ready event number pass are tagged with it; a call
\* made by the entry point itself is tagged "immediate".
Replay(pass) == <<"replay", pass>>
Immediate == <<"immediate", 0>>

\* The closure appended to waitRegister.
Pending(reg, name) == [reg |-> reg, name |-> name]

\* No call of the entry point is in progress.
NoCall ==
    [pc |-> "idle", reg |-> 0, name |-> "", writes |-> <<>>, err |-> FALSE,
     ok |-> FALSE]

\* The record of the call in progress is closed: it has returned or raised.
CallEnds(raised) ==
    /\ regLog' = [regLog EXCEPT ![Len(regLog)] =
                                    [@ EXCEPT !.raised = raised, !.done = TRUE]]
    /\ regCall' = NoCall

\* The script of task t is inside a call of the entry point at position pc.
InRegister(t, pc) == t.kind = "load" /\ t.phase = "script" /\ regCall.pc = pc

\* A script calls register_application_command(d): the descriptor's fields
\* are read; nothing is written yet.
Register(t, d) ==
    /\ Alive
    /\ InRegister(t, "idle")
    /\ Len(regLog) < MaxRegs
    /\ LET reg == Len(regLog) + 1
           r == RegisterParse(d, reg)
       IN /\ regCall' = [pc |-> "write", reg |-> reg, name |-> d.name,
                         writes |-> r.writes, err |-> r.err, ok |-> FALSE]
          /\ regLog' = Append(regLog, [d |-> d, bound |-> Session # "nil",
                                       raised |-> FALSE, done |-> FALSE])
    /\ UNCHANGED <<binding, interp, clock, runner, loader, evs, ready, comp, fatal>>
    /\ UNCHANGED <<platformCalls, invoked, logged, offWorker>>

\* The next handler is installed: L.SetGlobal, then the assignment to
\* b.Commands.  The global is read only by tasks on the worker, which this
\* call occupies; the map entry is visible to HandleInteraction at once.
RegisterWrite(t) ==
    /\ Alive
    /\ InRegister(t, "write")
    /\ regCall.writes # <<>>
    /\ LET w == Head(regCall.writes)
       IN /\ globals' = SetKey(globals, w.globalName, w.fn)
          /\ Commands' = SetKey(Commands, w.key, w.globalName)
    /\ regCall' = [regCall EXCEPT !.writes = Tail(@)]
    /\ UNCHANGED <<Session, waitRegister, OnReadyCbs, clock, runner, loader, evs,
                   ready, hist, comp, fatal>>

\* L.ArgError: a field has the wrong kind, or a subcommand has no handler.
\* The error unwinds the call and the script that made it.
RegisterArgError(t) ==
    /\ Alive
    /\ InRegister(t, "write")
    /\ regCall.writes = <<>>
    /\ regCall.err
    /\ ScriptRaised(t)
    /\ CallEnds(TRUE)
    /\ UNCHANGED <<binding, interp, clock, loader, evs, ready, comp, fatal>>
    /\ UNCHANGED <<platformCalls, invoked, offWorker>>

\* The session test: b.Session is read.
RegisterTest(t) ==
    /\ Alive
    /\ InRegister(t, "write")
    /\ regCall.writes = <<>>
    /\ ~regCall.err
    /\ regCall' = [regCall EXCEPT !.pc = IF Unbound THEN "append" ELSE "call"]
    /\ regLog' = [regLog EXCEPT ![Len(regLog)].bound = Session # "nil"]
    /\ UNCHANGED <<binding, interp, clock, runner, loader, evs, ready, comp, fatal>>
    /\ UNCHANGED <<platformCalls, invoked, logged, offWorker>>

\* No session was found: the closure is appended to waitRegister and the
\* entry point returns.
RegisterAppend(t) ==
    /\ Alive
    /\ InRegister(t, "append")
    /\ waitRegister' = Append(waitRegister, Pending(regCall.reg, regCall.name))
    /\ CallEnds(FALSE)
    /\ UNCHANGED <<Session, Commands, interp, clock, runner, loader, evs, ready,
                   comp, fatal>>
    /\ UNCHANGED <<platformCalls, invoked, logged, offWorker>>

\* A session was found: ApplicationCommandCreate reaches the platform, which
\* accepts or rejects the command; the worker has been waiting for the answer
\* since the session test.
RegisterCall(t, ok) ==
    /\ Alive
    /\ InRegister(t, "call")
    /\ platformCalls' = Append(platformCalls,
                               PlatformCall(regCall.reg, regCall.name, Immediate, ok))
    /\ regCall' = [regCall EXCEPT !.pc = "answered", !.ok = ok]
    /\ UNCHANGED <<binding, interp, clock, runner, loader, evs, ready, comp, fatal>>
    /\ UNCHANGED <<invoked, regLog, logged, offWorker>>

\* The answer is back: the entry point returns, or raises when the platform
\* rejected the command.
RegisterReturn(t) ==
    /\ Alive
    /\ InRegister(t, "answered")
    /\ IF regCall.ok
       THEN UNCHANGED <<runner, logged>>
       ELSE ScriptRaised(t)
    /\ CallEnds(~regCall.ok)
    /\ UNCHANGED <<binding, interp, clock, loader, evs, ready, comp, fatal>>
    /\ UNCHANGED <<platformCalls, invoked, offWorker>>

\* ----------------------------------------------------------------- on_ready
\* A script calls on_ready(handler); now is the reading of time.Now().Unix(),
\* which never goes back.
addReady(t, now) ==
    /\ Alive
    /\ t.kind = "load" /\ t.phase = "script"
    /\ regCall.pc = "idle"
    /\ Len(OnReadyCbs) < MaxCbs
    /\ now >= clock
    /\ clock' = now
    /\ LET globalName == ReadyGlobalName(now)
           handler == Callable(Len(OnReadyCbs) + 1, "ready", "", "")
       IN /\ globals' = SetKey(globals, globalName, handler)
          /\ OnReadyCbs' = Append(OnReadyCbs, globalName)
    /\ UNCHANGED <<binding, runner, loader, evs, ready, hist>>
    /\ UNCHANGED <<comp, entry>>

\* -------------------------------------------------------------- LoadScripts
\* NewManager calls RegisterDiscordModule, which hands the preload closure to
\* the runner and waits for it.
RegisterDiscordModule ==
    /\ Alive
    /\ loaderPc = "new"
    /\ Do(Task("module", "", 0))
    /\ loaderTid' = nextTid
    /\ loaderPc' = "waitModule"
    /\ UNCHANGED <<binding, interp, clock, loaded, evs, ready, hist>>
    /\ UNCHANGED <<comp, entry>>

\* Do has returned: NewManager returns the manager to its caller.
NewManagerReturn ==
    /\ Alive
    /\ loaderPc = "waitModule"
    /\ Returned(loaderTid)
    /\ loaderPc' = "start"
    /\ UNCHANGED <<binding, interp, clock, runner, loaderTid, loaded, evs, ready, hist>>
    /\ UNCHANGED <<comp, entry>>

\* The manager exists: its methods HandleCommand and ReadyHandler can be
\* given to the session as event handlers.
ManagerBuilt == loaderPc \notin {"new", "waitModule"}

LoaderResumed == loaderPc \in {"waitPath", "waitFile"} /\ Returned(loaderTid)

LoadScriptsPath ==
    /\ Alive
    /\ loaderPc = "start"
    /\ Do(Task("path", "", 0))
    /\ loaderTid' = nextTid
    /\ loaderPc' = "waitPath"
    /\ UNCHANGED <<binding, interp, clock, loaded, evs, ready, hist>>
    /\ UNCHANGED <<comp, entry>>

LoadScriptsFile ==
    /\ Alive
    /\ LoaderResumed
    /\ loaded < NumScripts
    /\ Do(Task("load", "", 0))
    /\ loaderTid' = nextTid
    /\ loaderPc' = "waitFile"
    /\ loaded' = loaded + 1
    /\ UNCHANGED <<binding, interp, clock, evs, ready, hist>>
    /\ UNCHANGED <<comp, entry>>

LoadScriptsReturn ==
    /\ Alive
    /\ LoaderResumed
    /\ loaded = NumScripts
    /\ loaderPc' = "done"
    /\ UNCHANGED <<binding, interp, clock, runner, loaderTid, loaded, evs, ready, hist>>
    /\ UNCHANGED <<comp, entry>>

\* ------------------------------------------- HandleCommand/HandleInteraction
\* Variant of Lookup: every key is reported as present.
LookupAlwaysExists(cmds, key) ==
    [exists |-> TRUE, globalName |-> IF key \in DOMAIN cmds THEN cmds[key] ELSE ""]

\* globalName, exists := b.Commands[commandName]
Lookup(cmds, key) ==
    IF key \in DOMAIN cmds
    THEN [exists |-> TRUE, globalName |-> cmds[key]]
    ELSE [exists |-> FALSE, globalName |-> ""]

\* What HandleCommand and HandleInteraction log for an event whose key has
\* no entry: HandleInteraction returns an error, HandleCommand logs it, finds
\* no other binding and returns.
MissRecords(i, commandName) ==
    { [msg |-> "Command not registered", arg |-> commandName],
      [msg |-> "Error handling interaction with binding", arg |-> commandName],
      [msg |-> "Command binding not found", arg |-> ToString(i)] }

\* commandName is computed and looked up in b.Commands.
HandleInteractionLookup(i, e) ==
    /\ Alive
    /\ ManagerBuilt
    /\ evPc[i] = "idle"
    /\ evEvent' = [evEvent EXCEPT ![i] = e]
    /\ evSeen' = [evSeen EXCEPT ![i] = Len(SelectSeq(regLog, LAMBDA r : r.done))]
    /\ LET commandName == DispatchKey(e)
           found == Lookup(Commands, commandName)
       IN IF found.exists
          THEN /\ evGlobal' = [evGlobal EXCEPT ![i] = found.globalName]
               /\ evPc' = [evPc EXCEPT ![i] = "found"]
               /\ UNCHANGED logged
          ELSE /\ logged' = logged \cup MissRecords(i, commandName)
               /\ evPc' = [evPc EXCEPT ![i] = "notreg"]
               /\ UNCHANGED evGlobal
    /\ UNCHANGED <<binding, interp, clock, runner, loader, evTid, ready>>
    /\ UNCHANGED <<platformCalls, invoked, regLog, offWorker>>
    /\ UNCHANGED <<comp, entry>>

\* The lookup of goroutine i overlaps an assignment to b.Commands made by the
\* entry point on the worker: the Go runtime detects the concurrent map read
\* and map write and aborts the process.
ConcurrentMapReadAndMapWrite(i) ==
    /\ Alive
    /\ evPc[i] = "idle"
    /\ regCall.pc = "write"
    /\ regCall.writes # <<>>
    /\ fatal' = TRUE
    /\ UNCHANGED <<binding, interp, clock, runner, loader, evs, ready, hist, comp,
                   regCall>>

\* Variant of RunHandler: the event goroutine calls into the interpreter
\* itself instead of going through the runner.
RunHandlerInline(t) ==
    /\ t.fn \in DOMAIN globals
    /\ running' = running \cup {[t EXCEPT !.phase = "script"]}
    /\ nextTid' = nextTid + 1
    /\ UNCHANGED <<queue, finished, started>>

\* utils.GetLuaRunner().Do(func(L) {...}) in HandleInteraction.
RunHandler(t) == Do(t)

\* The handler closure is handed to the runner.
HandleInteractionDo(i) ==
    /\ Alive
    /\ evPc[i] = "found"
    /\ RunHandler(Task("handler", evGlobal[i], i))
    /\ evTid' = [evTid EXCEPT ![i] = nextTid]
    /\ evPc' = [evPc EXCEPT ![i] = "waiting"]
    /\ UNCHANGED <<binding, interp, clock, loader, evEvent, evGlobal, evSeen,
                   ready, hist>>
    /\ UNCHANGED <<comp, entry>>

\* Do has returned; HandleInteraction returns nil.
HandleInteractionReturn(i) ==
    /\ Alive
    /\ evPc[i] = "waiting"
    /\ Returned(evTid[i])
    /\ evPc' = [evPc EXCEPT ![i] = "ok"]
    /\ UNCHANGED <<binding, interp, clock, runner, loader, evEvent, evGlobal, evTid,
                   evSeen, ready, hist>>
    /\ UNCHANGED <<comp, entry>>

\* ------------------------------------------------------------- ReadyHandler
\* A ready event arrives: setSession stores the session in the binding and
\* starts the range over waitRegister.
ReadyHandlerStart ==
    /\ Alive
    /\ ManagerBuilt
    /\ readyPc = "idle"
    /\ readyCount < MaxReady
    /\ readyCount' = readyCount + 1
    /\ Session' = "session"
    /\ replayLen' = Len(waitRegister)
    /\ replayIdx' = 1
    /\ readyPc' = "replay"
    /\ UNCHANGED <<Commands, waitRegister, interp, clock, runner, loader, evs,
                   cbLen, cbIdx, readyTid, hist>>
    /\ UNCHANGED <<comp, entry>>

\* An operation on the interpreter state made by a goroutine that is not
\* executing a runner task.
InterpreterOp(by, op) == [by |-> by, op |-> op]

\* What a rejected replayed registration does to the range over
\* waitRegister: L.RaiseError panics out of the closure, SetSession and
\* ReadyHandler.
ReplayAfterFailure == "panicked"

\* The range in SetSession is at an iteration, or waits in its platform call.
InReplay == readyPc \in {"replay", "accepted", "rejected"}

\* One iteration of the range in SetSession: the queued closure's
\* ApplicationCommandCreate reaches the platform, which accepts or rejects
\* the command.
SetSessionReplay(ok) ==
    /\ Alive
    /\ readyPc = "replay"
    /\ replayIdx <= replayLen
    /\ LET f == waitRegister[replayIdx]
       IN platformCalls' = Append(platformCalls,
                                  PlatformCall(f.reg, f.name, Replay(readyCount), ok))
    /\ readyPc' = IF ok THEN "accepted" ELSE "rejected"
    /\ UNCHANGED <<binding, interp, clock, runner, loader, evs, readyCount,
                   replayLen, replayIdx, cbLen, cbIdx, readyTid>>
    /\ UNCHANGED <<invoked, regLog, logged, offWorker>>
    /\ UNCHANGED <<comp, entry>>

\* The answer is back on the ready goroutine.  Accepted: the closure returns
\* and the range goes to the next entry.  Rejected: the closure calls
\* L.RaiseError on the interpreter, which panics; no protected call is active
\* on this goroutine and nothing recovers, so the panic ends the process.
SetSessionReplayReturn ==
    /\ Alive
    /\ readyPc \in {"accepted", "rejected"}
    /\ IF readyPc = "accepted"
       THEN /\ replayIdx' = replayIdx + 1
            /\ readyPc' = "replay"
            /\ UNCHANGED <<offWorker, fatal>>
       ELSE /\ offWorker' = offWorker \cup {InterpreterOp("ReadyHandler", "RaiseError")}
            /\ readyPc' = ReplayAfterFailure
            /\ fatal' = TRUE
            /\ UNCHANGED replayIdx
    /\ UNCHANGED <<binding, interp, clock, runner, loader, evs, readyCount,
                   replayLen, cbLen, cbIdx, readyTid>>
    /\ UNCHANGED <<platformCalls, invoked, regLog, logged>>
    /\ UNCHANGED <<comp, regCall>>

\* setSession has returned: the range over m.OnReadyCbs starts.
ReadyHandlerRange ==
    /\ Alive
    /\ readyPc = "replay"
    /\ replayIdx > replayLen
    /\ cbLen' = Len(OnReadyCbs)
    /\ cbIdx' = 1
    /\ readyPc' = "callbacks"
    /\ UNCHANGED <<binding, interp, clock, runner, loader, evs, readyCount,
                   replayLen, replayIdx, readyTid, hist>>
    /\ UNCHANGED <<comp, entry>>

ReadyResumed ==
    \/ readyPc = "callbacks"
    \/ readyPc = "waiting" /\ Returned(readyTid)

\* One iteration of the range over m.OnReadyCbs: the callback's closure is
\* handed to the runner.
ReadyHandlerDo ==
    /\ Alive
    /\ ReadyResumed
    /\ cbIdx <= cbLen
    /\ Do(Task("ready", OnReadyCbs[cbIdx], readyCount))
    /\ readyTid' = nextTid
    /\ cbIdx' = cbIdx + 1
    /\ readyPc' = "waiting"
    /\ UNCHANGED <<binding, interp, clock, loader, evs, readyCount, replayLen,
                   replayIdx, cbLen, hist>>
    /\ UNCHANGED <<comp, entry>>

ReadyHandlerReturn ==
    /\ Alive
    /\ ReadyResumed
    /\ cbIdx > cbLen
    /\ readyPc' = "idle"
    /\ UNCHANGED <<binding, interp, clock, runner, loader, evs, readyCount,
                   replayLen, replayIdx, cbLen, cbIdx, readyTid, hist>>
    /\ UNCHANGED <<comp, entry>>

\* A binding hands its components table to ParseComponents.
ParseComponentsCall ==
    /\ Alive
    /\ ~compResult.called
    /\ compResult' = ParseComponents(compTable)
    /\ UNCHANGED <<binding, interp, clock, runner, loader, evs, ready, hist, compTable>>
    /\ UNCHANGED entry

\* ------------------------------------------------------------ specification
EmptyMap == [k \in {} |-> k]
NoEvent == [name |-> "", options |-> <<>>]

InitHost ==
    /\ Session = "nil"
    /\ Commands = EmptyMap
    /\ waitRegister = <<>>
    /\ globals = EmptyMap
    /\ OnReadyCbs = <<>>
    /\ clock = 0
    /\ queue = <<>>
    /\ running = {}
    /\ finished = {}
    /\ nextTid = 1
    /\ started = <<>>
    /\ loaderPc = "new" /\ loaderTid = 0 /\ loaded = 0
    /\ evPc = [i \in EvIds |-> "idle"]
    /\ evEvent = [i \in EvIds |-> NoEvent]
    /\ evGlobal = [i \in EvIds |-> ""]
    /\ evTid = [i \in EvIds |-> 0]
    /\ evSeen = [i \in EvIds |-> 0]
    /\ readyPc = "idle" /\ readyCount = 0
    /\ replayLen = 0 /\ replayIdx = 1 /\ cbLen = 0 /\ cbIdx = 1 /\ readyTid = 0
    /\ platformCalls = <<>>
    /\ invoked = <<>>
    /\ regLog = <<>>
    /\ logged = {}
    /\ offWorker = {}
    /\ regCall = NoCall
    /\ fatal = FALSE

Init ==
    /\ InitHost
    /\ compTable = <<>>
    /\ compResult = NotCalled

Next ==
    \/ RegisterDiscordModule
    \/ NewManagerReturn
    \/ WorkerTake
    \/ \E t \in running : \E raised \in BOOLEAN : TaskEnds(t, raised)
    \/ \E t \in running : \E d \in Descriptors : Register(t, d)
    \/ \E t \in running : RegisterWrite(t)
    \/ \E t \in running : RegisterTest(t)
    \/ \E t \in running : RegisterAppend(t)
    \/ \E t \in running : RegisterArgError(t)
    \/ \E t \in running : \E ok \in BOOLEAN : RegisterCall(t, ok)
    \/ \E t \in running : RegisterReturn(t)
    \/ \E t \in running : \E now \in 0..MaxClock : addReady(t, now)
    \/ LoadScriptsPath
    \/ LoadScriptsFile
    \/ LoadScriptsReturn
    \/ \E i \in EvIds : \E e \in Events : HandleInteractionLookup(i, e)
    \/ \E i \in EvIds : ConcurrentMapReadAndMapWrite(i)
    \/ \E i \in EvIds : HandleInteractionDo(i)
    \/ \E i \in EvIds : HandleInteractionReturn(i)
    \/ ReadyHandlerStart
    \/ \E ok \in BOOLEAN : SetSessionReplay(ok)
    \/ SetSessionReplayReturn
    \/ ReadyHandlerRange
    \/ ReadyHandlerDo
    \/ ReadyHandlerReturn
    \/ ParseComponentsCall

Spec == Init /\ [][Next]_vars

\* Workload: ParseComponents applied to every components table.
InitComponents ==
    /\ InitHost
    /\ compTable \in ComponentTables
    /\ compResult = NotCalled

NextComponents == ParseComponentsCall

SpecComponents == InitComponents /\ [][NextComponents]_vars

\* The worker and the LoadScripts caller, common to every workload.
Loading ==
    \/ RegisterDiscordModule
    \/ NewManagerReturn
    \/ WorkerTake
    \/ \E t \in running : \E raised \in BOOLEAN : TaskEnds(t, raised)
    \/ LoadScriptsPath
    \/ LoadScriptsFile
    \/ LoadScriptsReturn

\* Workload: scripts register commands; ready events replay the queue.
NextRegister ==
    \/ Loading
    \/ \E t \in running : \E d \in Descriptors : Register(t, d)
    \/ \E t \in running : RegisterWrite(t)
    \/ \E t \in running : RegisterTest(t)
    \/ \E t \in running : RegisterAppend(t)
    \/ \E t \in running : RegisterArgError(t)
    \/ \E t \in running : \E ok \in BOOLEAN : RegisterCall(t, ok)
    \/ \E t \in running : RegisterReturn(t)
    \/ ReadyHandlerStart
    \/ \E ok \in BOOLEAN : SetSessionReplay(ok)
    \/ SetSessionReplayReturn
    \/ ReadyHandlerRange
    \/ ReadyHandlerReturn

SpecRegister == Init /\ [][NextRegister]_vars

\* Workload: scripts register descriptors the entry point refuses, and "foo".
ValidateDescriptors == InvalidDescriptors \cup {FooCmd}

NextValidate ==
    \/ Loading
    \/ \E t \in running : \E d \in ValidateDescriptors : Register(t, d)
    \/ \E t \in running : RegisterWrite(t)
    \/ \E t \in running : RegisterTest(t)
    \/ \E t \in running : RegisterAppend(t)
    \/ \E t \in running : RegisterArgError(t)
    \/ \E t \in running : \E ok \in BOOLEAN : RegisterCall(t, ok)
    \/ \E t \in running : RegisterReturn(t)
    \/ ReadyHandlerStart
    \/ \E ok \in BOOLEAN : SetSessionReplay(ok)
    \/ SetSessionReplayReturn
    \/ ReadyHandlerRange
    \/ ReadyHandlerReturn

SpecValidate == Init /\ [][NextValidate]_vars

\* Workload: scripts register commands the entry point accepts; command
\* events are dispatched.
DispatchDescriptors == {FooWithBarBaz, FooBarCmd}

NextDispatch ==
    \/ Loading
    \/ \E t \in running : \E d \in DispatchDescriptors : Register(t, d)
    \/ \E t \in running : RegisterWrite(t)
    \/ \E t \in running : RegisterTest(t)
    \/ \E t \in running : RegisterAppend(t)
    \/ \E i \in EvIds : \E e \in Events : HandleInteractionLookup(i, e)
    \/ \E i \in EvIds : ConcurrentMapReadAndMapWrite(i)
    \/ \E i \in EvIds : HandleInteractionDo(i)
    \/ \E i \in EvIds : HandleInteractionReturn(i)

SpecDispatch == Init /\ [][NextDispatch]_vars

\* Workload: "foo" is registered with its subcommands; events carrying
\* options at several levels are dispatched to the handlers.
FlattenDescriptors == {FooWithBarBaz}

FlattenEvents ==
    { [name |-> "foo",
       options |-> <<EvOpt("bar", ApplicationCommandOptionSubCommand,
                           <<EvOptValue("y", ApplicationCommandOptionString, "1")>>)>>],
      [name |-> "foo",
       options |-> <<EvOptValue("x", ApplicationCommandOptionString, "0"),
                     EvOpt("bar", ApplicationCommandOptionSubCommand,
                           <<EvOptValue("y", ApplicationCommandOptionString, "1")>>)>>],
      [name |-> "foo",
       options |-> <<EvOpt("bar", ApplicationCommandOptionSubCommand,
                           <<EvOptValue("y", ApplicationCommandOptionString, "1")>>),
                     EvOptValue("z", ApplicationCommandOptionString, "2")>>],
      [name |-> "foo",
       options |-> <<EvOpt("grp", ApplicationCommandOptionSubCommandGroup,
                           <<EvOpt("bar", ApplicationCommandOptionSubCommand,
                                   <<EvOptValue("y", ApplicationCommandOptionString,
                                                "1")>>)>>)>>] }

NextFlatten ==
    \/ Loading
    \/ \E t \in running : \E d \in FlattenDescriptors : Register(t, d)
    \/ \E t \in running : RegisterWrite(t)
    \/ \E t \in running : RegisterTest(t)
    \/ \E t \in running : RegisterAppend(t)
    \/ \E i \in EvIds : \E e \in FlattenEvents : HandleInteractionLookup(i, e)
    \/ \E i \in EvIds : ConcurrentMapReadAndMapWrite(i)
    \/ \E i \in EvIds : HandleInteractionDo(i)
    \/ \E i \in EvIds : HandleInteractionReturn(i)

SpecFlatten == Init /\ [][NextFlatten]_vars

\* Workload: scripts register ready callbacks; ready events invoke them.
NextReady ==
    \/ Loading
    \/ \E t \in running : \E now \in 0..MaxClock : addReady(t, now)
    \/ ReadyHandlerStart
    \/ ReadyHandlerRange
    \/ ReadyHandlerDo
    \/ ReadyHandlerReturn

SpecReady == Init /\ [][NextReady]_vars

\* Workload: every kind of caller of the runner at once.  The scripts
\* register one command, "foo", and one ready callback; the events name
\* "foo"; the platform accepts the registration.
RunnerDescriptors == {FooCmd}
RunnerEvents == {[name |-> "foo", options |-> <<>>]}

NextRunner ==
    \/ Loading
    \/ \E t \in running : \E d \in RunnerDescriptors :
           regLog = <<>> /\ Register(t, d)
    \/ \E t \in running : RegisterWrite(t)
    \/ \E t \in running : RegisterTest(t)
    \/ \E t \in running : RegisterAppend(t)
    \/ \E t \in running : RegisterCall(t, TRUE)
    \/ \E t \in running : RegisterReturn(t)
    \/ \E t \in running : OnReadyCbs = <<>> /\ addReady(t, clock)
    \/ \E i \in EvIds : \E e \in RunnerEvents : HandleInteractionLookup(i, e)
    \/ \E i \in EvIds : ConcurrentMapReadAndMapWrite(i)
    \/ \E i \in EvIds : HandleInteractionDo(i)
    \/ \E i \in EvIds : HandleInteractionReturn(i)
    \/ ReadyHandlerStart
    \/ SetSessionReplay(TRUE)
    \/ SetSessionReplayReturn
    \/ ReadyHandlerRange
    \/ ReadyHandlerDo
    \/ ReadyHandlerReturn

SpecRunner == Init /\ [][NextRunner]_vars

\* Workload: the scripts are loaded first, as at startup; then the session
\* delivers ready events and command events for "foo" concurrently.
ScriptsLoaded == loaderPc = "done"

NextFault ==
    \/ Loading
    \/ \E t \in running : \E d \in RunnerDescriptors :
           regLog = <<>> /\ Register(t, d)
    \/ \E t \in running : RegisterWrite(t)
    \/ \E t \in running : RegisterTest(t)
    \/ \E t \in running : RegisterAppend(t)
    \/ \E t \in running : OnReadyCbs = <<>> /\ addReady(t, clock)
    \/ \E i \in EvIds : \E e \in RunnerEvents :
           ScriptsLoaded /\ HandleInteractionLookup(i, e)
    \/ \E i \in EvIds : HandleInteractionDo(i)
    \/ \E i \in EvIds : HandleInteractionReturn(i)
    \/ ScriptsLoaded /\ ReadyHandlerStart
    \/ SetSessionReplay(TRUE)
    \/ SetSessionReplayReturn
    \/ ReadyHandlerRange
    \/ ReadyHandlerDo
    \/ ReadyHandlerReturn

\* The scheduling the runtime gives: the worker goroutine keeps taking tasks,
\* a task body terminates, and a caller whose Do has returned goes on.
RunnerFairness ==
    /\ WF_vars(WorkerTake)
    /\ WF_vars(\E t \in running : \E raised \in BOOLEAN : TaskEnds(t, raised))
    /\ WF_vars(\E i \in EvIds : HandleInteractionReturn(i))
    /\ WF_vars(ReadyHandlerDo)
    /\ WF_vars(ReadyHandlerReturn)

SpecFaultLive == Init /\ [][NextFault]_vars /\ RunnerFairness

\* ================================================================== claims
\* Number of entries of a sequence that satisfy a test.
Count(seq, Test(_)) == Cardinality({k \in 1..Len(seq) : Test(seq[k])})

\* Ids of the tasks admitted to the queue and not yet completed.
PendingTasks(kinds) ==
    {queue[k].id : k \in {j \in 1..Len(queue) : queue[j].kind \in kinds}}
        \cup {t.id : t \in {u \in running : u.kind \in kinds}}

\* C1: whatever callers have submitted tasks (LoadScripts, HandleInteraction,
\* ReadyHandler), at most one task is executing against the interpreter.
C1_AtMostOneTaskExecuting == Cardinality(running) <= 1

\* C1 witness: a task is executing while tasks of two other callers wait.
C1_Witness ==
    /\ Cardinality(running) = 1
    /\ Len(queue) >= 2
    /\ \E j, k \in 1..Len(queue) : queue[j].kind # queue[k].kind

\* C2: tasks start in the order they were admitted (ids are given in
\* admission order), a task starts only after every earlier one has
\* completed, and a caller is past its Do only when its own task completed.
C2_FifoOneAtATimeBlocking ==
    /\ \A k \in 1..Len(started) : started[k] = k
    /\ \A k \in 1..(Len(started) - 1) : started[k] \in finished
    /\ \A i \in EvIds : evPc[i] = "ok" => evTid[i] \in finished
    /\ Cardinality(PendingTasks({"module", "path", "load"})) <= 1
    /\ loaderPc = "done" => PendingTasks({"module", "path", "load"}) = {}
    /\ Cardinality(PendingTasks({"ready"})) <= 1
    /\ readyPc = "idle" => PendingTasks({"ready"}) = {}

\* C2 witness: three tasks of different callers were admitted while another
\* was executing, all have run, and the event's caller has returned.
C2_Witness ==
    /\ Len(started) >= 5
    /\ \E i \in EvIds : evPc[i] = "ok" /\ evTid[i] < Len(started)
    /\ \E k \in 1..Len(invoked) : invoked[k].kind = "ready"
    /\ loaderPc = "done"

\* A descriptor every field of which has the kind the entry point requires,
\* including a handler on every subcommand option.
RECURSIVE ValidOptions(_)
ValidOptions(options) ==
    \A k \in 1..Len(options) :
        LET o == options[k]
        IN /\ o.nameKind = "string" /\ o.descKind = "string" /\ o.typeKind = "number"
           /\ o.type = ApplicationCommandOptionSubCommand =>
                  o.handlerKind = "function" /\ ValidOptions(o.options)

ValidDescriptor(d) ==
    /\ d.nameKind = "string" /\ d.descKind = "string"
    /\ d.handlerKind \in {"nil", "function"}
    /\ d.optionsKind \in {"nil", "table"}
    /\ d.optionsKind = "table" => ValidOptions(d.options)

\* Platform calls made by registration call reg itself / entries it queued.
ImmediateCalls(reg) ==
    Count(platformCalls, LAMBDA c : c.reg = reg /\ c.via = Immediate)
QueuedEntries(reg) == Count(waitRegister, LAMBDA f : f.reg = reg)

\* C3: a registration call with a valid descriptor made while unbound calls
\* the platform zero times, queues exactly one entry and raises no error;
\* made while bound it calls the platform exactly once and queues nothing.
\* (bound is what the call's session test found; the call has ended.)
C3_QueueWhenUnboundCallWhenBound ==
    \A reg \in 1..Len(regLog) :
        regLog[reg].done /\ ValidDescriptor(regLog[reg].d) =>
            IF regLog[reg].bound
            THEN ImmediateCalls(reg) = 1 /\ QueuedEntries(reg) = 0
            ELSE /\ ImmediateCalls(reg) = 0
                 /\ QueuedEntries(reg) = 1
                 /\ ~regLog[reg].raised

\* C3 witness: one valid registration was made unbound and one bound.
C3_Witness ==
    \E q, r \in 1..Len(regLog) :
        /\ regLog[q].done /\ ValidDescriptor(regLog[q].d) /\ ~regLog[q].bound
        /\ regLog[r].done /\ ValidDescriptor(regLog[r].d) /\ regLog[r].bound
        /\ regLog[r].d.optionsKind = "table"

\* Replayed platform calls made for the entry queued by registration reg.
ReplayCalls(reg) ==
    Count(platformCalls, LAMBDA c : c.reg = reg /\ c.via[1] = "replay")

\* A ready event's replay of the queue is over and SetSession has returned.
ReplayReturned == readyCount >= 1 /\ readyPc \in {"callbacks", "waiting", "idle"}

\* C4: over any sequence of registrations and ready events, a command queued
\* while unbound is registered on the platform exactly once; the replayed
\* calls follow the queue's order; an entry once replayed is discarded, that
\* is, never replayed again.
C4_QueuedRegisteredExactlyOnceInOrder ==
    /\ \A k \in 1..Len(waitRegister) : ReplayCalls(waitRegister[k].reg) <= 1
    /\ ReplayReturned =>
           \A k \in 1..Len(waitRegister) : ReplayCalls(waitRegister[k].reg) = 1
    /\ \A i, j \in 1..Len(platformCalls) :
           /\ i < j
           /\ platformCalls[i].via[1] = "replay"
           /\ platformCalls[j].via[1] = "replay"
           => platformCalls[i].reg < platformCalls[j].reg

\* A ready event's replay of the queue is over, normally or not.
ReplayOver == readyCount >= 1 /\ ~InReplay

\* C5: when the platform rejects one pending command during a replay, the
\* other pending commands still get their platform call in that replay.
C5_ReplayContinuesAfterRejection ==
    ReplayOver =>
        \A k \in 1..replayLen :
            \E j \in 1..Len(platformCalls) :
                /\ platformCalls[j].via = Replay(readyCount)
                /\ platformCalls[j].reg = waitRegister[k].reg

\* The function passed to the k-th on_ready call.
ReadyCallback(k) == Callable(k, "ready", "", "")

\* The ready callbacks invoked for ready event number pass, in order.
ReadyInvocations(pass) ==
    SelectSeq(invoked, LAMBDA v : v.kind = "ready" /\ v.src = pass)

\* C6: a ready event invokes every callback registered before it, each
\* exactly once, in registration order, whether or not one of them raises.
C6_ReadyInvokesAllInOrder ==
    readyPc = "idle" /\ readyCount >= 1 =>
        LET calls == ReadyInvocations(readyCount)
        IN /\ Len(calls) = cbLen
           /\ \A k \in 1..Len(calls) : calls[k].fn = ReadyCallback(k)

\* C7: over the process lifetime no registered ready callback is invoked
\* more than once.
C7_ReadyCallbackAtMostOnce ==
    \A k \in 1..Len(OnReadyCbs) :
        Count(invoked, LAMBDA v : v.fn = ReadyCallback(k)) <= 1

\* C8: the identifiers given to on_ready registrations are pairwise
\* different and no registration replaces the function of an earlier one.
C8_ReadyIdentifiersUnique ==
    /\ \A j, k \in 1..Len(OnReadyCbs) : j # k => OnReadyCbs[j] # OnReadyCbs[k]
    /\ \A k \in 1..Len(OnReadyCbs) : globals[OnReadyCbs[k]] = ReadyCallback(k)

\* The event's first option is of subcommand type.
FirstIsSubCommand(e) ==
    Len(e.options) >= 1 /\ e.options[1].type = ApplicationCommandOptionSubCommand

\* The handler invocations made for the event of goroutine i, in order.
HandlerCalls(i) ==
    SelectSeq(invoked, LAMBDA v : v.kind = "handler" /\ v.src = i)

\* Descriptor d declares command c with a first-level subcommand s.
DeclaresSub(d, c, s) ==
    /\ ValidDescriptor(d)
    /\ d.name = c
    /\ d.optionsKind = "table"
    /\ \E k \in 1..Len(d.options) :
           /\ d.options[k].name = s
           /\ d.options[k].type = ApplicationCommandOptionSubCommand

\* C9: once command c was registered with a subcommand s carrying a handler,
\* an event naming c whose first option is subcommand s is dispatched: it
\* makes exactly one handler invocation, and the function invoked is the one
\* supplied for s, not a function supplied as c's own handler.
C9_SubcommandEventRunsSubHandler ==
    \A i \in EvIds :
        LET c == evEvent[i].name
            s == evEvent[i].options[1].name
            calls == HandlerCalls(i)
        IN (/\ FirstIsSubCommand(evEvent[i])
            /\ \E r \in 1..evSeen[i] :
                   ~regLog[r].raised /\ DeclaresSub(regLog[r].d, c, s))
           => /\ evPc[i] # "notreg"
              /\ Len(calls) <= 1
              /\ evPc[i] = "ok" => Len(calls) = 1
              /\ \A k \in 1..Len(calls) :
                     /\ calls[k].fn.role = "subcommand"
                     /\ calls[k].fn.cmd = c
                     /\ calls[k].fn.opt = s

\* C10: once a subcommand handler is registered under the combined key of a
\* command and a subcommand, the dispatch map has no entry under the bare
\* name of that command.
C10_NoBareParentEntry ==
    \A key \in DOMAIN Commands :
        LET fn == globals[Commands[key]]
        IN (fn.role = "subcommand" /\ regLog[fn.reg].d.name = fn.cmd)
               => fn.cmd \notin DOMAIN Commands

\* The key the dispatch contract prescribes for an event: the command name,
\* joined with the first option's name when that option is a subcommand.
FirstOptionKey(e) ==
    IF FirstIsSubCommand(e) THEN e.name \o "_" \o e.options[1].name ELSE e.name

\* C11: for every inbound command event the lookup key HandleInteraction
\* computes is the command name joined with the first option's name when the
\* first option is of subcommand type and the command name alone otherwise;
\* options after the first never change the key (a miss logs that key).
C11_KeyFromFirstOptionOnly ==
    \A i \in EvIds :
        evPc[i] # "idle" =>
            /\ DispatchKey(evEvent[i]) = FirstOptionKey(evEvent[i])
            /\ evPc[i] = "notreg" =>
                   [msg |-> "Command not registered",
                    arg |-> FirstOptionKey(evEvent[i])] \in logged

\* The first-level subcommand names a descriptor declares.
FirstLevelSubs(d) ==
    {d.options[k].name :
        k \in {j \in 1..Len(d.options) :
                  d.options[j].type = ApplicationCommandOptionSubCommand}}

\* The keys the registrations made so far may create: each command's name and
\* that name joined with one of its first-level subcommand names.
FirstLevelKeys ==
    UNION {{regLog[r].d.name} \cup
           {regLog[r].d.name \o "_" \o s : s \in FirstLevelSubs(regLog[r].d)} :
           r \in 1..Len(regLog)}

\* C12: in every reachable state every key of the dispatch map is a command
\* name or a command name joined with exactly one first-level subcommand
\* name; nested subcommands never create a key of a deeper level.
C12_KeysUseFirstLevelOnly == DOMAIN Commands \subseteq FirstLevelKeys

\* Ids of the handler tasks submitted for the event of goroutine i and not
\* yet completed.
HandlerTasksOf(i) ==
    {queue[k].id : k \in {j \in 1..Len(queue) :
                             queue[j].kind = "handler" /\ queue[j].src = i}}
        \cup {t.id : t \in {u \in running : u.kind = "handler" /\ u.src = i}}

\* An event whose key has no entry has been answered: the miss is logged by
\* HandleInteraction and by HandleCommand, no task was submitted for it and no
\* script handler was invoked.
MissAnswered(i) ==
    /\ MissRecords(i, DispatchKey(evEvent[i])) \subseteq logged
    /\ HandlerTasksOf(i) = {}
    /\ HandlerCalls(i) = <<>>
    /\ evTid[i] = 0

\* The step in which goroutine i looks up an event whose key has no entry.
MissStep(i) ==
    /\ evPc[i] = "idle"
    /\ evPc'[i] # "idle"
    /\ DispatchKey(evEvent'[i]) \notin DOMAIN Commands

\* C13: for an event whose computed key has no entry in the dispatch map,
\* HandleInteraction returns the "not registered" failure, submits no task,
\* invokes no handler and leaves the dispatch map unchanged; HandleCommand
\* logs the miss and returns.
C13_MissIsLoggedAndHarmless ==
    /\ [](\A i \in EvIds : evPc[i] = "notreg" => MissAnswered(i))
    /\ [][\A i \in EvIds :
             MissStep(i) => /\ evPc'[i] = "notreg"
                            /\ Commands' = Commands
                            /\ globals' = globals
                            /\ runner' = runner
                            /\ invoked' = invoked]_vars

\* C13 witness: a command is registered, an event for another key has been
\* answered as a miss.
C13_Witness ==
    \E i \in EvIds :
        /\ evPc[i] = "notreg"
        /\ DOMAIN Commands # {}
        /\ DispatchKey(evEvent[i]) \notin DOMAIN Commands
        /\ MissAnswered(i)

\* The options an event carries at its deepest subcommand level: the list is
\* descended through every subcommand or group option that has options.
RECURSIVE DeepestOptions(_)
DeepestOptions(options) ==
    LET nests == {k \in 1..Len(options) :
                     /\ options[k].type \in {ApplicationCommandOptionSubCommand,
                                             ApplicationCommandOptionSubCommandGroup}
                     /\ options[k].options # <<>>}
    IN IF nests = {} THEN options
       ELSE DeepestOptions(options[CHOOSE k \in nests : \A j \in nests : k <= j].options)

\* The names of the value options among a list of options.
ValueOptionNames(options) ==
    {options[k].name :
        k \in {j \in 1..Len(options) :
                  options[j].type \notin {ApplicationCommandOptionSubCommand,
                                          ApplicationCommandOptionSubCommandGroup}}}

\* C14: the options table a handler receives for an event with nested
\* subcommand options holds exactly the options of the deepest subcommand
\* level; no option of a shallower level, before or after the subcommand
\* entry, is in it.
C14_OnlyDeepestLevelOptions ==
    \A k \in 1..Len(invoked) :
        invoked[k].kind = "handler" =>
            DOMAIN invoked[k].args[1].options =
                ValueOptionNames(DeepestOptions(evEvent[invoked[k].src].options))

\* C15: every operation on the interpreter state made by Register,
\* parseOptions, the replayed registration closures, HandleInteraction,
\* ReadyHandler and LoadScripts happens inside a task executing on the
\* runner's worker: no other goroutine touches the interpreter.
C15_InterpreterOnlyFromWorker == offWorker = {}

\* A script is executing on the worker: it may call the registration entry
\* point, which writes the dispatch map and the pending list.
ScriptExecuting == \E t \in running : t.phase = "script"

\* Goroutine i reads the dispatch map in this step.
ReadsCommands(i) == evPc[i] = "idle" /\ evPc'[i] # "idle"

\* C16: the dispatch map and the pending list are written only inside runner
\* tasks or by the session-bind transition, which itself runs as one runner
\* task; so the iteration in SetSession and the read in HandleInteraction
\* never happen while a script that can write them executes on the worker,
\* and the runtime never finds a read of the map overlapping a write.
C16_BindingStateAccessSerialized ==
    /\ [](~fatal)
    /\ [](InReplay => ~ScriptExecuting)
    /\ [][(\E i \in EvIds : ReadsCommands(i)) => ~ScriptExecuting]_vars

\* C17: a registration call whose descriptor fails validation raises an
\* error to the calling script (its load is logged as failed), makes no
\* platform call, immediate or replayed, and queues no pending entry.
C17_InvalidDescriptorRaisesWithoutRegistering ==
    \A reg \in 1..Len(regLog) :
        ~ValidDescriptor(regLog[reg].d) =>
            /\ regLog[reg].done =>
                   /\ regLog[reg].raised
                   /\ [msg |-> ErrorMessage("load"), arg |-> ""] \in logged
            /\ \A k \in 1..Len(platformCalls) : platformCalls[k].reg # reg
            /\ QueuedEntries(reg) = 0

\* C17 witness: after a valid registration, a descriptor whose second
\* subcommand has no handler was refused while a session was bound.
C17_Witness ==
    /\ Len(regLog) = 2
    /\ ValidDescriptor(regLog[1].d)
    /\ regLog[2].d = FooWithBarAndBadQux
    /\ regLog[2].bound
    /\ regLog[2].raised
    /\ running = {}

\* The ids tasks can get in the runner workload.
TaskIds == 1..(2 + NumScripts + MaxEvents + MaxReady)

\* Task id has been admitted to the queue and has not started.
Queued(id) == \E k \in 1..Len(queue) : queue[k].id = id

\* A command handler or a ready callback has raised a runtime error.
FaultLogged ==
    \E r \in logged : r.msg \in {ErrorMessage("handler"), ErrorMessage("ready")}

\* C18: after a command handler or a ready callback raised while its task
\* executed, the worker keeps running: every task waiting in the queue is
\* eventually executed to completion, and HandleInteraction and ReadyHandler
\* return to their callers.
C18_FaultDoesNotStopTheWorker ==
    /\ \A id \in TaskIds : (FaultLogged /\ Queued(id)) ~> Returned(id)
    /\ \A i \in EvIds : (evPc[i] = "waiting") ~> (evPc[i] = "ok")
    /\ (readyPc = "waiting") ~> (readyPc = "idle")

\* C18 witness: a handler and a ready callback have both raised, every task
\* submitted has completed and both callers have returned.
C18_Witness ==
    /\ [msg |-> ErrorMessage("handler"), arg |-> "foo"] \in logged
    /\ [msg |-> ErrorMessage("ready"), arg |-> ""] \in logged
    /\ \E i \in EvIds : evPc[i] = "ok"
    /\ readyPc = "idle"
    /\ queue = <<>> /\ running = {}
    /\ Cardinality(finished) >= 5

\* An entry ParseComponents turns into a component: a table whose type is
\* "button", or "select" with an options table.
ValidEntry(e) ==
    /\ e.kind = "table"
    /\ \/ LuaToString(e.type) = "button"
       \/ LuaToString(e.type) = "select" /\ e.options.kind = "table"

\* C19: ParseComponents returns the "no valid components" failure and no
\* component structure exactly when the table has no valid entry; otherwise
\* it returns exactly one action row holding one component per valid entry in
\* input order, a button keeping its label and custom_id with the primary
\* style; invalid entries are skipped.
C19_OneRowOfValidEntriesOrFailure ==
    compResult.called =>
        LET valid == SelectSeq(compTable, ValidEntry)
        IN IF valid = <<>>
           THEN /\ compResult.err = "no valid components found"
                /\ compResult.components = <<>>
           ELSE /\ compResult.err = "nil"
                /\ Len(compResult.components) = 1
                /\ compResult.components[1].component = "ActionsRow"
                /\ LET row == compResult.components[1].Components
                   IN /\ Len(row) = Len(valid)
                      /\ \A k \in 1..Len(valid) :
                             IF LuaToString(valid[k].type) = "button"
                             THEN /\ row[k].component = "Button"
                                  /\ row[k].Label = LuaToString(valid[k].label)
                                  /\ row[k].CustomID = LuaToString(valid[k].custom_id)
                                  /\ row[k].Style = PrimaryButton
                             ELSE /\ row[k].component = "SelectMenu"
                                  /\ row[k].CustomID = LuaToString(valid[k].custom_id)

\* C19 witness: the table holds an invalid entry, the button Go/go_btn and a
\* select menu; the result is one row with the button first.
C19_Witness ==
    /\ compResult.called
    /\ compTable = <<TextEntry, GoButton, PickSelect>>
    /\ Len(compResult.components) = 1
    /\ Len(compResult.components[1].Components) = 2
    /\ compResult.components[1].Components[1].Label = "Go"
    /\ compResult.components[1].Components[1].CustomID = "go_btn"

\* The registration call that supplied the function a dispatch key leads to.
SuppliedBy(key) == globals[Commands[key]].reg

\* C20: a registration call that ends by raising an error (a validation
\* failure in a nested option, or a platform rejection while bound) leaves the
\* dispatch map as it was before the call: no key leads to a function that a
\* failed call supplied.
C20_FailedCallLeavesMapUnchanged ==
    \A key \in DOMAIN Commands : ~regLog[SuppliedBy(key)].raised

\* The (command, subcommand or none) pairs for which the valid registration
\* calls ended so far supplied a handler; opt is "" for a command's own handler.
RegisteredPairs ==
    UNION {LET d == regLog[r].d
           IN IF ~regLog[r].done \/ ~ValidDescriptor(d) THEN {}
              ELSE (IF d.handlerKind = "function"
                    THEN {[role |-> "command", cmd |-> d.name, opt |-> ""]}
                    ELSE {})
                   \cup {[role |-> "subcommand", cmd |-> d.name, opt |-> sub] :
                            sub \in FirstLevelSubs(d)} :
           r \in 1..Len(regLog)}

\* Some dispatch key leads to a function that was supplied for pair p.
Dispatchable(p) ==
    \E key \in DOMAIN Commands :
        LET fn == globals[Commands[key]]
        IN fn.role = p.role /\ fn.cmd = p.cmd /\ fn.opt = p.opt

\* C21: dispatch keys are injective over registrations: handlers of different
\* (command, subcommand or none) pairs never share a dispatch key or a script
\* global, so registering one never overwrites the other and every pair
\* registered so far still has a key that leads to a function of its own.
C21_KeysInjectiveOverRegistrations ==
    \A p \in RegisteredPairs : Dispatchable(p)

====
